---- MODULE Spec2Model ----
(***************************************************************************)
(* Model of python-scripts/refresh_upstox_token.py: the token refresh job. *)
(* One process run is main(): RailwayTokenManager() followed by run() and  *)
(* sys.exit.  The external scheduler starts the next run only after the    *)
(* previous one has exited, so runs never overlap.                         *)
(*                                                                         *)
(* Everything the job reads from outside (environment variables, the       *)
(* outcome of each database, brokerage and clock call) is recorded in env  *)
(* when it is read.  A run may be started as a replay of the run before    *)
(* it: it then reads the same values again, and only the outcome of the    *)
(* notification HTTP call is free.                                         *)
(***************************************************************************)
EXTENDS Integers, Sequences, FiniteSets, TLC

VARIABLES
    pc,            \* position of the process in main()/run()
    environ,       \* os.environ of the process: the brokerage credentials
    env,           \* what this run has read from its environment so far
    prev,          \* the run being replayed: its env, result and write
    attempt,       \* loop variable of connect_mongodb (0-based)
    client,        \* self.client: 0 is None, k the client of attempt k
    openClients,   \* MongoClient objects created and not yet closed
    upx,           \* self.upx is set
    tokenData,     \* token_data in run(): "none" or the access token
    collection,    \* the accesstokens collection, a sequence of documents
    clock,         \* latest time observed by any run
    returned,      \* return value of run(): "none" (not yet), "true", "false"
    success,       \* local variable success of run()
    exitCode,      \* status passed to sys.exit, -1 while running
    alerts,        \* messages send_alert was called with in this run
    posts,         \* HTTP POSTs made by send_alert in this run, with outcome
    log,           \* error log lines of this run (attempt failures, missing variables)
    dbAttempts,    \* MongoClient constructions attempted in this run
    ctorCalls,     \* UpstoxTOTP constructions attempted in this run
    fetchCalls,    \* get_access_token calls in this run
    upsertCalls,   \* update_one calls issued in this run
    modified,      \* result of update_one: "none", "modified", "upserted", "zero"
    written,       \* the document of the update_one issued in this run
    collAtStart    \* the collection when this run started

vars == <<pc, environ, env, prev, attempt, client, openClients, upx, tokenData,
          collection, clock, returned, success, exitCode, alerts, posts, log,
          dbAttempts, ctorCalls, fetchCalls, upsertCalls, modified, written,
          collAtStart>>

(***************************************************************************)
(* Bounds and program constants                                            *)
(***************************************************************************)
MaxClock == 2

MaxMissing == 2

max_retries == 3

\* timedelta(hours=23, minutes=30), in minutes
Validity == 1410

Tokens == {"tokA", "tokB"}

RequiredVars == {"UPSTOX_USERNAME", "UPSTOX_PASSWORD", "UPSTOX_PIN_CODE",
                 "UPSTOX_TOTP_SECRET", "UPSTOX_CLIENT_ID", "UPSTOX_CLIENT_SECRET"}

SetUnset == {"set", "unset"}

\* The environments of a run: which brokerage credentials are present
Environs ==
    {f \in [RequiredVars -> SetUnset] :
        Cardinality({n \in RequiredVars : f[n] = "unset"}) <= MaxMissing}

\* Outcome of one iteration of the connection loop:
\*   ok         MongoClient(...) and ping both succeed
\*   ping_fail  client constructed, ping raises ConnectionFailure/OperationFailure
\*   ping_other client constructed, ping raises another exception
\*   ctor_other MongoClient(...) raises another exception (InvalidURI,
\*              ConfigurationError of an SRV lookup): no client object exists
DbOutcomes == {"ok", "ping_fail", "ping_other", "ctor_other"}

CtorOutcomes == {"ok", "ConfigurationError", "Exception"}

\* get_access_token: a response object, or an exception
Responses == {[kind |-> "response", success |-> s, data |-> d] :
                  s \in BOOLEAN, d \in Tokens \cup {"none"}}
             \cup {[kind |-> k, success |-> FALSE, data |-> "none"] :
                  k \in {"UpstoxError", "Exception"}}

\* requests.post: status 200, another status, or an exception (timeout, DNS)
SendOutcomes == {"200", "non200", "raise"}

NoDoc == [token |-> "none", updated_at |-> -1, expires_at |-> -1]

EnvUnread == [MONGO_URI |-> "unread", DATABASE_URL |-> "unread",
              TELEGRAM_BOT_TOKEN |-> "unread", ADMIN_TELEGRAM_CHAT_ID |-> "unread",
              db |-> <<>>,
              required_vars |-> [n \in RequiredVars |-> "unread"],
              upstox_ctor |-> "unread",
              response |-> [kind |-> "unread", success |-> FALSE, data |-> "none"],
              now |-> -1,
              update_raises |-> "unread",
              SEND_SUCCESS_ALERTS |-> "unread"]

NoPrev == [env |-> EnvUnread, ret |-> "none", written |-> NoDoc, posts |-> <<>>]

\* The values a read may yield: the replayed run's value where it read one
Replayed(old, unread, S) == IF old # unread THEN {old} ELSE S

Msg(kind, names) == [kind |-> kind, vars |-> names]

LogLine(tag, n, names) == [tag |-> tag, n |-> n, vars |-> names]

(***************************************************************************)
(* send_alert                                                              *)
(***************************************************************************)
TelegramConfigured ==
    env.TELEGRAM_BOT_TOKEN = "set" /\ env.ADMIN_TELEGRAM_CHAT_ID = "set"

\* Whether an error of the HTTP call leaves send_alert: the try/except
\* around requests.post catches every Exception
SendAlertEscapes_unguarded(o) == TelegramConfigured /\ o = "raise"
SendAlertEscapes(o) == FALSE

AlertsAfter(msg) == Append(alerts, msg)

PostsAfter(msg, o) ==
    IF TelegramConfigured THEN Append(posts, [msg |-> msg, outcome |-> o])
    ELSE posts

(***************************************************************************)
(* main(): RailwayTokenManager.__init__ and _extract_db_name               *)
(***************************************************************************)
\* os.getenv('MONGO_URI') or os.getenv('DATABASE_URL'): the second variable
\* is read only when the first is absent
MongoUri(m, d) == IF m = "set" THEN "set" ELSE d

DatabaseUrlDraw(old, m) ==
    IF m = "set" THEN {"unread"} ELSE Replayed(old, "unread", SetUnset)

ExtractDbNameExits_never(uri) == FALSE
ExtractDbNameExits(uri) == uri # "set"

ExitStatus_zero(ok) == 0
ExitStatus(ok) == IF ok THEN 0 ELSE 1

Init ==
    /\ pc = "idle"
    /\ environ \in Environs
    /\ env = EnvUnread
    /\ prev = NoPrev
    /\ attempt = 0
    /\ client = 0
    /\ openClients = {}
    /\ upx = FALSE
    /\ tokenData = "none"
    /\ collection \in {<<>>, <<[token |-> "tokA", updated_at |-> 0,
                                expires_at |-> Validity]>>}
    /\ clock = 0
    /\ returned = "none"
    /\ success = FALSE
    /\ exitCode = -1
    /\ alerts = <<>>
    /\ posts = <<>>
    /\ log = <<>>
    /\ dbAttempts = 0
    /\ ctorCalls = 0
    /\ fetchCalls = 0
    /\ upsertCalls = 0
    /\ modified = "none"
    /\ written = NoDoc
    /\ collAtStart = collection

\* A new process: every per-run variable starts afresh; the collection and
\* the clock are the world's and persist.  p is the run it replays (NoPrev
\* for none) and E the environments it may be started in.
StartProcess(p, E) ==
    /\ prev' = p
    /\ environ' \in E
    /\ \E m \in Replayed(p.env.MONGO_URI, "unread", SetUnset) :
       \E d \in DatabaseUrlDraw(p.env.DATABASE_URL, m),
          tb \in Replayed(p.env.TELEGRAM_BOT_TOKEN, "unread", SetUnset),
          tc \in Replayed(p.env.ADMIN_TELEGRAM_CHAT_ID, "unread", SetUnset) :
         IF ExtractDbNameExits(MongoUri(m, d))
         THEN /\ env' = [EnvUnread EXCEPT !.MONGO_URI = m, !.DATABASE_URL = d]
              /\ log' = <<LogLine("MONGO_URI not found", 0, {})>>
              /\ exitCode' = 1
              /\ pc' = "exited"
         ELSE /\ env' = [EnvUnread EXCEPT !.MONGO_URI = m, !.DATABASE_URL = d,
                                          !.TELEGRAM_BOT_TOKEN = tb,
                                          !.ADMIN_TELEGRAM_CHAT_ID = tc]
              /\ log' = <<>>
              /\ exitCode' = -1
              /\ pc' = "connect"
    /\ attempt' = 0
    /\ client' = 0
    /\ openClients' = {}
    /\ upx' = FALSE
    /\ tokenData' = "none"
    /\ returned' = "none"
    /\ success' = FALSE
    /\ alerts' = <<>>
    /\ posts' = <<>>
    /\ dbAttempts' = 0
    /\ ctorCalls' = 0
    /\ fetchCalls' = 0
    /\ upsertCalls' = 0
    /\ modified' = "none"
    /\ written' = NoDoc
    /\ collAtStart' = collection
    /\ UNCHANGED <<collection, clock>>

\* main() of a run started in any environment
Main ==
    /\ pc = "idle"
    /\ StartProcess(NoPrev, Environs)

\* main() of a run started right after the previous one, in the environment
\* the previous run had
MainAgain ==
    /\ pc = "exited"
    /\ StartProcess([env |-> env, ret |-> returned, written |-> written,
                     posts |-> posts], {environ})

\* The exited process is gone; the scheduler waits for the next run
ProcessGone ==
    /\ pc = "exited"
    /\ pc' = "idle"
    /\ env' = EnvUnread
    /\ prev' = NoPrev
    /\ attempt' = 0
    /\ client' = 0
    /\ openClients' = {}
    /\ upx' = FALSE
    /\ tokenData' = "none"
    /\ returned' = "none"
    /\ success' = FALSE
    /\ exitCode' = -1
    /\ alerts' = <<>>
    /\ posts' = <<>>
    /\ log' = <<>>
    /\ dbAttempts' = 0
    /\ ctorCalls' = 0
    /\ fetchCalls' = 0
    /\ upsertCalls' = 0
    /\ modified' = "none"
    /\ written' = NoDoc
    /\ collAtStart' = collection
    /\ UNCHANGED <<environ, collection, clock>>

(***************************************************************************)
(* run(): a call of send_alert on a path that then returns False           *)
(***************************************************************************)
AlertAndFail(msg, o) ==
    /\ alerts' = AlertsAfter(msg)
    /\ posts' = PostsAfter(msg, o)
    /\ IF SendAlertEscapes(o)
       THEN pc' = "except" /\ UNCHANGED returned
       ELSE pc' = "finally" /\ returned' = "false"

(***************************************************************************)
(* connect_mongodb: one iteration of  for attempt in range(max_retries)    *)
(***************************************************************************)
\* except (ConnectionFailure, OperationFailure): the outcomes that are retried
Retried(o) == o = "ping_fail"

\* if attempt == max_retries - 1
LastAttempt_early(a) == a = max_retries - 2
LastAttempt(a) == a = max_retries - 1

\* MongoClient(...) returned an object, which self.client now names
ClientCreated(o) == o \in {"ok", "ping_fail", "ping_other"}

DbDraw ==
    IF Len(prev.env.db) > attempt THEN {prev.env.db[attempt + 1]} ELSE DbOutcomes

ConnectAttempt ==
    /\ pc = "connect"
    /\ attempt < max_retries
    /\ \E o \in DbDraw, s \in SendOutcomes :
         /\ env' = [env EXCEPT !.db = Append(@, o)]
         /\ dbAttempts' = dbAttempts + 1
         /\ client' = IF ClientCreated(o) THEN attempt + 1 ELSE client
         /\ openClients' = IF ClientCreated(o) THEN openClients \cup {attempt + 1}
                           ELSE openClients
         /\ CASE o = "ok" ->
                   /\ pc' = "init_upstox"
                   /\ UNCHANGED <<attempt, log, alerts, posts, returned>>
              [] Retried(o) /\ ~LastAttempt(attempt) ->
                   /\ log' = Append(log, LogLine("Attempt failed", attempt + 1, {}))
                   /\ attempt' = attempt + 1
                   /\ pc' = "connect"
                   /\ UNCHANGED <<alerts, posts, returned>>
              [] Retried(o) /\ LastAttempt(attempt) ->
                   /\ log' = Append(log, LogLine("Attempt failed", attempt + 1, {}))
                   /\ AlertAndFail(Msg("MongoDB connection failed after 3 retries", {}), s)
                   /\ UNCHANGED attempt
              [] OTHER ->
                   \* not caught in connect_mongodb: reaches run()'s handler
                   /\ pc' = "except"
                   /\ UNCHANGED <<attempt, log, alerts, posts, returned>>
    /\ UNCHANGED <<environ, prev, upx, tokenData, collection, clock, success, exitCode,
                   ctorCalls, fetchCalls, upsertCalls, modified, written,
                   collAtStart>>

(***************************************************************************)
(* initialize_upstox                                                       *)
(***************************************************************************)
\* missing = [name for name, value in required_vars.items() if not value]
Missing_skipTotp(vals) ==
    {n \in RequiredVars \ {"UPSTOX_TOTP_SECRET"} : vals[n] # "set"}
Missing(vals) == {n \in RequiredVars : vals[n] # "set"}

\* required_vars = {name: os.getenv(name), ...}
RequiredVarsRead == environ

InitializeUpstox ==
    /\ pc = "init_upstox"
    /\ \E vals \in {RequiredVarsRead}, s \in SendOutcomes :
         IF Missing(vals) # {}
         THEN /\ env' = [env EXCEPT !.required_vars = vals]
              /\ log' = Append(log, LogLine("Missing environment variables", 0,
                                            Missing(vals)))
              /\ AlertAndFail(Msg("Missing env vars", Missing(vals)), s)
              /\ UNCHANGED <<upx, ctorCalls>>
         ELSE \E c \in Replayed(prev.env.upstox_ctor, "unread", CtorOutcomes) :
              /\ env' = [env EXCEPT !.required_vars = vals, !.upstox_ctor = c]
              /\ ctorCalls' = ctorCalls + 1
              /\ CASE c = "ok" ->
                        /\ upx' = TRUE
                        /\ pc' = "generate"
                        /\ UNCHANGED <<log, alerts, posts, returned>>
                   [] c = "ConfigurationError" ->
                        /\ log' = Append(log, LogLine("Configuration error", 0, {}))
                        /\ AlertAndFail(Msg("Upstox config error", {}), s)
                        /\ UNCHANGED upx
                   [] OTHER ->
                        \* except Exception: logged, no send_alert
                        /\ log' = Append(log, LogLine("Unexpected error", 0, {}))
                        /\ pc' = "finally"
                        /\ returned' = "false"
                        /\ UNCHANGED <<upx, alerts, posts>>
    /\ UNCHANGED <<environ, prev, attempt, client, openClients, tokenData, collection,
                   clock, success, exitCode, dbAttempts, fetchCalls, upsertCalls,
                   modified, written, collAtStart>>

(***************************************************************************)
(* generate_access_token                                                   *)
(***************************************************************************)
\* if response.success and response.data
ResponseOk_ignoresSuccess(r) == r.data # "none"
ResponseOk(r) == r.success /\ r.data # "none"

GenerateAccessToken ==
    /\ pc = "generate"
    /\ \E r \in Replayed(prev.env.response, EnvUnread.response, Responses),
          s1 \in SendOutcomes, s2 \in SendOutcomes :
         /\ env' = [env EXCEPT !.response = r]
         /\ fetchCalls' = fetchCalls + 1
         /\ CASE r.kind = "response" /\ ResponseOk(r) /\ r.data # "none" ->
                   \* token_data is a non-empty dict: run() goes on
                   /\ tokenData' = r.data
                   /\ pc' = "update"
                   /\ UNCHANGED <<log, alerts, posts, returned>>
              [] r.kind = "response" /\ ~ResponseOk(r) ->
                   /\ log' = Append(log, LogLine("Token generation failed", 0, {}))
                   /\ IF SendAlertEscapes(s1)
                      THEN \* raised inside the try: handled by except Exception
                           /\ alerts' = alerts \o <<Msg("Token generation failed", {}),
                                                    Msg("Unexpected error", {})>>
                           /\ posts' = IF TelegramConfigured
                                       THEN posts \o
                                         <<[msg |-> Msg("Token generation failed", {}),
                                            outcome |-> s1],
                                           [msg |-> Msg("Unexpected error", {}),
                                            outcome |-> s2]>>
                                       ELSE posts
                           /\ IF SendAlertEscapes(s2)
                              THEN pc' = "except" /\ UNCHANGED returned
                              ELSE pc' = "finally" /\ returned' = "false"
                      ELSE AlertAndFail(Msg("Token generation failed", {}), s1)
                   /\ UNCHANGED tokenData
              [] r.kind = "UpstoxError" ->
                   /\ log' = Append(log, LogLine("Upstox API error", 0, {}))
                   /\ AlertAndFail(Msg("Upstox API error", {}), s1)
                   /\ UNCHANGED tokenData
              [] OTHER ->
                   \* except Exception (also an attribute read of an absent payload)
                   /\ log' = Append(log, LogLine("Unexpected error", 0, {}))
                   /\ AlertAndFail(Msg("Unexpected error", {}), s1)
                   /\ UNCHANGED tokenData
    /\ UNCHANGED <<environ, prev, attempt, client, openClients, upx, collection, clock,
                   success, exitCode, dbAttempts, ctorCalls, upsertCalls,
                   modified, written, collAtStart>>

(***************************************************************************)
(* update_token_in_db                                                      *)
(***************************************************************************)
\* expires_at = now + timedelta(hours=23, minutes=30)
UpdateDoc(token, now) ==
    [token |-> token, updated_at |-> now, expires_at |-> now + Validity]

\* collection.update_one({}, {'$set': doc}, upsert=True): the empty filter
\* matches the first document; without a match the document is inserted
UpdateOne_insertAlways(coll, doc) == Append(coll, doc)
UpdateOne(coll, doc) ==
    IF coll = <<>> THEN <<doc>> ELSE [coll EXCEPT ![1] = doc]

\* result.upserted_id / result.modified_count
UpdateResult(coll, doc) ==
    IF coll = <<>> THEN "upserted"
    ELSE IF coll[1] = doc THEN "zero" ELSE "modified"

\* if result.modified_count > 0 or result.upserted_id: return True
\* else: warning, return True
UpdateReturn_strict(res) == res \in {"modified", "upserted"}
UpdateReturn(res) == TRUE

\* update_one returns ("no"), or raises before the server applied the write
\* ("yes"), or raises after it did, the reply being lost ("yes_applied")
UpdateOutcomes == {"no", "yes", "yes_applied"}

NowDraw ==
    Replayed(prev.env.now, -1,
             {clock} \cup (IF clock < MaxClock THEN {clock + 1} ELSE {}))

UpdateTokenInDb ==
    /\ pc = "update"
    /\ \E now \in NowDraw,
          raises \in Replayed(prev.env.update_raises, "unread", UpdateOutcomes),
          s \in SendOutcomes :
         LET doc == UpdateDoc(tokenData, now)
             res == UpdateResult(collection, doc)
         IN
         /\ env' = [env EXCEPT !.now = now, !.update_raises = raises]
         /\ clock' = IF now > clock THEN now ELSE clock
         /\ upsertCalls' = upsertCalls + 1
         /\ IF raises # "no"
            THEN /\ log' = Append(log, LogLine("MongoDB update failed", 0, {}))
                 /\ AlertAndFail(Msg("MongoDB update failed", {}), s)
                 /\ collection' = IF raises = "yes_applied"
                                  THEN UpdateOne(collection, doc) ELSE collection
                 /\ written' = IF raises = "yes_applied" THEN doc ELSE written
                 /\ UNCHANGED modified
            ELSE /\ collection' = UpdateOne(collection, doc)
                 /\ modified' = res
                 /\ written' = doc
                 /\ IF UpdateReturn(res)
                    THEN pc' = "success" /\ UNCHANGED returned
                    ELSE pc' = "finally" /\ returned' = "false"
                 /\ UNCHANGED <<log, alerts, posts>>
    /\ UNCHANGED <<environ, prev, attempt, client, openClients, upx, tokenData, success,
                   exitCode, dbAttempts, ctorCalls, fetchCalls, collAtStart>>

(***************************************************************************)
(* run(): the success tail, the handler, the finally block; main()'s exit  *)
(***************************************************************************)
RunSuccess ==
    /\ pc = "success"
    /\ success' = TRUE
    /\ \E f \in Replayed(prev.env.SEND_SUCCESS_ALERTS, "unread", {"true", "false"}),
          s \in SendOutcomes :
         /\ env' = [env EXCEPT !.SEND_SUCCESS_ALERTS = f]
         /\ IF f = "true"
            THEN /\ alerts' = AlertsAfter(Msg("Token refreshed successfully", {}))
                 /\ posts' = PostsAfter(Msg("Token refreshed successfully", {}), s)
                 /\ IF SendAlertEscapes(s)
                    THEN pc' = "except" /\ UNCHANGED returned
                    ELSE pc' = "finally" /\ returned' = "true"
            ELSE /\ pc' = "finally"
                 /\ returned' = "true"
                 /\ UNCHANGED <<alerts, posts>>
    /\ UNCHANGED <<environ, prev, attempt, client, openClients, upx, tokenData, collection,
                   clock, exitCode, log, dbAttempts, ctorCalls, fetchCalls,
                   upsertCalls, modified, written, collAtStart>>

\* except Exception as e: in run()
RunExcept ==
    /\ pc = "except"
    /\ log' = Append(log, LogLine("Unexpected error in run()", 0, {}))
    /\ \E s \in SendOutcomes :
         /\ alerts' = AlertsAfter(Msg("Critical error", {}))
         /\ posts' = PostsAfter(Msg("Critical error", {}), s)
         /\ returned' = IF SendAlertEscapes(s) THEN returned ELSE "false"
    /\ pc' = "finally"
    /\ UNCHANGED <<environ, env, prev, attempt, client, openClients, upx, tokenData,
                   collection, clock, success, exitCode, dbAttempts, ctorCalls,
                   fetchCalls, upsertCalls, modified, written, collAtStart>>

\* finally: if self.client: self.client.close()
RunFinally ==
    /\ pc = "finally"
    /\ openClients' = IF client # 0 THEN openClients \ {client} ELSE openClients
    /\ pc' = "returned"
    /\ UNCHANGED <<environ, env, prev, attempt, client, upx, tokenData, collection, clock,
                   returned, success, exitCode, alerts, posts, log, dbAttempts,
                   ctorCalls, fetchCalls, upsertCalls, modified, written,
                   collAtStart>>

\* sys.exit(0 if success else 1); an exception that left run() ends the
\* process with status 1
MainExit ==
    /\ pc = "returned"
    /\ exitCode' = IF returned = "none" THEN 1 ELSE ExitStatus(returned = "true")
    /\ pc' = "exited"
    /\ UNCHANGED <<environ, env, prev, attempt, client, openClients, upx, tokenData,
                   collection, clock, returned, success, alerts, posts, log,
                   dbAttempts, ctorCalls, fetchCalls, upsertCalls, modified,
                   written, collAtStart>>

Next ==
    \/ Main
    \/ MainAgain
    \/ ProcessGone
    \/ ConnectAttempt
    \/ InitializeUpstox
    \/ GenerateAccessToken
    \/ UpdateTokenInDb
    \/ RunSuccess
    \/ RunExcept
    \/ RunFinally
    \/ MainExit

Spec == Init /\ [][Next]_vars

(***************************************************************************)
(* Properties                                                              *)
(***************************************************************************)
RunReturned == pc \in {"returned", "exited"}

Exited == pc = "exited"

UriSet == env.MONGO_URI = "set" \/ env.DATABASE_URL = "set"

Connected == env.db # <<>> /\ env.db[Len(env.db)] = "ok"

AllAttemptsFailed == env.db # <<>> /\ \A i \in 1..Len(env.db) : env.db[i] # "ok"

AllAttemptsRetriable ==
    env.db # <<>> /\ \A i \in 1..Len(env.db) : env.db[i] = "ping_fail"

Absent == {n \in RequiredVars : environ[n] = "unset"}

TokenAcquired ==
    env.response.kind = "response" /\ env.response.success
        /\ env.response.data \in Tokens

AttemptLines == SelectSeq(log, LAMBDA l : l.tag = "Attempt failed")

FailureAlerts == SelectSeq(alerts, LAMBDA a : a.kind # "Token refreshed successfully")

\* C1: once run() has returned, no database client opened during the run
\* is still open.
C1_ConnectionReleased == RunReturned => openClients = {}

\* C2: with bot token and recipient configured, a run() that returns
\* failure has attempted a notification before returning.
C2_FailureNotified ==
    (RunReturned /\ returned = "false" /\ TelegramConfigured) => Len(posts) >= 1

\* C3 as stated: whenever every connection attempt of a run failed, exactly
\* 3 attempts were made, each logged with its number, one notification was
\* attempted and the exit status is 1.
C3_ExactlyThreeOnAnyFailure ==
    (Exited /\ AllAttemptsFailed) =>
        /\ dbAttempts = 3
        /\ [i \in 1..Len(AttemptLines) |-> AttemptLines[i].n] = <<1, 2, 3>>
        /\ Len(alerts) = 1
        /\ exitCode = 1

\* C3 amended: when every attempt fails with ConnectionFailure or
\* OperationFailure there are exactly 3 attempts, logged 1, 2, 3, then one
\* notification and exit status 1; an attempt failing otherwise ends the
\* retrying at once, with one notification and exit status 1; a successful
\* attempt is the last one; no run makes more than 3 attempts.
C3_ExactlyThreeOnRetriable ==
    /\ dbAttempts = Len(env.db)
    /\ dbAttempts <= 3
    /\ \A i \in 1..Len(env.db) : env.db[i] # "ping_fail" => i = Len(env.db)
    /\ (Exited /\ AllAttemptsRetriable) =>
          /\ dbAttempts = 3
          /\ [i \in 1..Len(AttemptLines) |-> AttemptLines[i].n] = <<1, 2, 3>>
          /\ alerts = <<Msg("MongoDB connection failed after 3 retries", {})>>
          /\ exitCode = 1
    /\ (Exited /\ AllAttemptsFailed) => (Len(alerts) = 1 /\ exitCode = 1)

C3_Witness ==
    Exited /\ env.db = <<"ping_fail", "ping_fail", "ping_fail">> /\ exitCode = 1

\* C4: the exit status is 0 exactly when the database URI was present, the
\* connection succeeded, every credential was present, the client was
\* constructed, a token was acquired and the write did not fail; it is 1
\* otherwise.
C4_ExitContract ==
    Exited =>
        /\ exitCode \in {0, 1}
        /\ exitCode = 0 <=>
             /\ UriSet
             /\ Connected
             /\ Absent = {}
             /\ env.upstox_ctor = "ok"
             /\ TokenAcquired
             /\ env.update_raises = "no"

C4_Witness == Exited /\ exitCode = 0 /\ modified = "modified"

\* C5: a run that reads the same environment as the run before it, and
\* differs only in the outcome of its notification calls, returns the same
\* result and issues the same database write.
C5_NotificationIndependent ==
    (RunReturned /\ prev # NoPrev) =>
        /\ returned = prev.ret
        /\ written = prev.written

C5_Witness ==
    /\ Exited /\ prev # NoPrev
    /\ Len(posts) = 1 /\ Len(prev.posts) = 1
    /\ posts[1].outcome = "raise" /\ prev.posts[1].outcome = "200"
    /\ returned = "true"

\* C6 as stated: with the database URI set and a credential missing, the
\* run logs and notifies exactly the missing variables, exits 1 and writes
\* nothing.
C6_MissingCredentialsReported ==
    (Exited /\ UriSet /\ Absent # {}) =>
        /\ \E i \in 1..Len(log) :
              log[i] = LogLine("Missing environment variables", 0, Absent)
        /\ alerts = <<Msg("Missing env vars", Absent)>>
        /\ exitCode = 1
        /\ upsertCalls = 0
        /\ collection = collAtStart

\* C6 amended: the same, for runs whose database connection succeeded.
C6_MissingCredentialsReportedWhenConnected ==
    (Exited /\ UriSet /\ Connected /\ Absent # {}) =>
        /\ \E i \in 1..Len(log) :
              log[i] = LogLine("Missing environment variables", 0, Absent)
        /\ alerts = <<Msg("Missing env vars", Absent)>>
        /\ exitCode = 1
        /\ upsertCalls = 0
        /\ collection = collAtStart

C6_Witness ==
    /\ Exited /\ Connected /\ Absent = {"UPSTOX_TOTP_SECRET"}
    /\ TelegramConfigured /\ Len(posts) = 1

\* C7: with neither MONGO_URI nor DATABASE_URL set the process has exited
\* with status 1 without any database, brokerage or notification call.
C7_NoUriExitsBeforeNetwork ==
    (env.MONGO_URI = "unset" /\ env.DATABASE_URL = "unset") =>
        /\ Exited
        /\ exitCode = 1
        /\ dbAttempts = 0 /\ openClients = {}
        /\ ctorCalls = 0 /\ fetchCalls = 0 /\ upsertCalls = 0
        /\ alerts = <<>> /\ posts = <<>>
        /\ collection = collAtStart

C7_Witness ==
    Exited /\ env.MONGO_URI = "unset" /\ env.DATABASE_URL = "unset"

\* C8: the collection never holds more than one document, and after a
\* successful run it holds exactly the document that run wrote.
C8_SingleRecord ==
    /\ Len(collection) <= 1
    /\ (Exited /\ exitCode = 0) =>
          collection = <<[token |-> env.response.data,
                          updated_at |-> env.now,
                          expires_at |-> env.now + 1410]>>

C8_Witness ==
    /\ Exited /\ exitCode = 0
    /\ collAtStart # <<>> /\ collection # collAtStart

\* C9: an upsert that modifies no document and creates none still gives
\* exit status 0, and no failure notification.
C9_ZeroModifiedIsSuccess ==
    (RunReturned /\ modified = "zero") =>
        /\ returned = "true"
        /\ Exited => exitCode = 0
        /\ FailureAlerts = <<>>

C9_Witness ==
    Exited /\ modified = "zero" /\ exitCode = 0 /\ collection = collAtStart

\* C10: per run at most one token fetch and at most one upsert; the upsert
\* only after a token was acquired in this run; a successful run issued
\* exactly one upsert; a run that issued none leaves the record unchanged.
C10_RecordedOnce ==
    /\ fetchCalls <= 1
    /\ upsertCalls <= 1
    /\ upsertCalls > 0 => (fetchCalls = 1 /\ TokenAcquired)
    /\ (Exited /\ exitCode = 0) => upsertCalls = 1
    /\ upsertCalls = 0 => collection = collAtStart

C10_Witness ==
    Exited /\ exitCode = 0 /\ upsertCalls = 1 /\ fetchCalls = 1

====
